---- MODULE Spec2Model ----
(***************************************************************************)
(* URL shortener (src/main.py): the POST /generate handler with its Redis  *)
(* admission counters and its SQLite url_map table, and the two GET        *)
(* handlers that resolve a short code.                                     *)
(*                                                                         *)
(* Requests run in parallel threads; each step of a handler below is one   *)
(* atomic operation on a shared store (one Redis command or pipeline, one  *)
(* SQL statement) together with the local code around it.                  *)
(***************************************************************************)
EXTENDS Integers, Sequences, FiniteSets, TLC

\* ---------------------------------------------------------------- bounds
\* clock resolution: ticks per second (datetime.now() has sub-second part)
TicksPerSecond == 2
\* number of handler threads followed step by step
NumSlots == 2
\* number of POST /generate calls started by the followed threads
MaxCalls == 3
\* number of store faults (Redis or SQLite exceptions) injected
MaxFaults == 1
\* clock horizon, in seconds past one link lifetime
HorizonSlack == 1
\* clock horizon of the admission runs, in counter lifetimes
MaxWindows == 1
\* single clock ticks taken after each whole link lifetime
MaxFineTicks == 1
\* size of the burst of requests already admitted and waiting at the start
Burst == 99

\* ------------------------------------------------------- program constants
MAX_CONCURRENT_REQUESTS == 100
REQUEST_TTL == 60
MAX_CONCURRENT_REQUESTS_FOR_ONE_USER == 100
\* timedelta(minutes=10)
LINK_TTL_MINUTES == 10

\* ------------------------------------------------------------ value spaces
None == "None"
Slots == 1..NumSlots

\* user ids: the two of Test2.py and one more
Users == {"1", "2", "3"}

\* URLs: the one Test2.py posts, one whose md5 has the same first six hex
\* digits, and one with a different code
TestUrl == "https://ruz.spbstu.ru/faculty/125/groups/"
TwinUrl == "https://ruz.spbstu.ru/faculty/125/groups/5659852"
OtherUrl == "https://ruz.spbstu.ru/faculty/126/groups/"
Urls == {TestUrl, TwinUrl, OtherUrl}

\* hashlib.md5(full_url.encode()).hexdigest()[:6], tabulated on Urls
generate_short_url(full_url) ==
    CASE full_url = TestUrl -> "69365b"
      [] full_url = TwinUrl -> "69365b"
      [] full_url = OtherUrl -> "e93f2f"

\* short codes a client may ask for: the issued ones and one never issued
Codes == {generate_short_url(u) : u \in Urls} \cup {"zzzzzz"}

\* ------------------------------------------------------------------- time
\* datetime.now().strftime('%Y-%m-%d %H:%M:%S'): the sub-second part is cut
Strftime(t) == t \div TicksPerSecond
\* datetime.strptime(created_at, '%Y-%m-%d %H:%M:%S')
Strptime(s) == s * TicksPerSecond

LinkTTLTicks == LINK_TTL_MINUTES * 60 * TicksPerSecond
RequestTTLTicks == REQUEST_TTL * TicksPerSecond
\* clock horizons and clock steps of the two specifications
AdmitHorizon == MaxWindows * RequestTTLTicks
LinkHorizon == LinkTTLTicks + HorizonSlack * TicksPerSecond

VARIABLES
    now,        \* wall clock, in ticks
    url_map,    \* the SQLite table: sequence of rows in rowid order
    redis,      \* the Redis keyspace: key -> value and expiry time
    req,        \* per followed thread: position and locals of its handler
    parked,     \* per user: admitted requests waiting before their SELECT
    resp,       \* response of the last GET handler run
    calls,      \* POST calls started so far by the followed threads
    faults,     \* store faults injected so far
    done,       \* what the caller saw of the last POST call that returned
    leakU,      \* per user: increments whose release will never run
    leakT,      \* same for the global key
    expiredInFlight \* a counter expired while some request still held it

vars == <<now, url_map, redis, req, parked, resp, calls, faults, done,
          leakU, leakT, expiredInFlight>>

\* ------------------------------------------------------------------ Redis
total_key == "total_requests"
user_key(user_id) == "user_requests:" \o user_id
Keys == {user_key(u) : u \in Users} \cup {total_key}

\* a missing key; a key set by INCR/DECR alone has no TTL (ttl = FALSE)
Missing == [set |-> FALSE, val |-> 0, ttl |-> FALSE, exp |-> 0]
\* a key is live if it is set and its TTL has not run out
Live(rd, k, t) == rd[k].set /\ (rd[k].ttl => t < rd[k].exp)
\* GET: nil for a missing or expired key
RedisGet(rd, k, t) ==
    IF Live(rd, k, t) THEN [nil |-> FALSE, val |-> rd[k].val]
    ELSE [nil |-> TRUE, val |-> 0]
\* INCR: a missing key counts as 0 and is created without TTL
RedisIncr(rd, k, t) ==
    IF Live(rd, k, t) THEN [rd EXCEPT ![k].val = @ + 1]
    ELSE [rd EXCEPT ![k] = [set |-> TRUE, val |-> 1, ttl |-> FALSE, exp |-> 0]]
\* DECR: a missing key counts as 0 and is created without TTL
RedisDecr(rd, k, t) ==
    IF Live(rd, k, t) THEN [rd EXCEPT ![k].val = @ - 1]
    ELSE [rd EXCEPT ![k] = [set |-> TRUE, val |-> -1, ttl |-> FALSE, exp |-> 0]]
\* EXPIRE key seconds
RedisExpire(rd, k, t, seconds) ==
    IF Live(rd, k, t)
    THEN [rd EXCEPT ![k].ttl = TRUE, ![k].exp = t + seconds * TicksPerSecond]
    ELSE rd
\* keys whose TTL has run out are removed
RedisPurge(rd, t) == [k \in Keys |-> IF Live(rd, k, t) THEN rd[k] ELSE Missing]

\* check_rate_limit with both limits one too high
check_rate_limit_OffByOne(rd, user_id, t) ==
    LET r1 == RedisIncr(rd, user_key(user_id), t)
        r2 == RedisIncr(r1, total_key, t)
        r3 == RedisExpire(r2, user_key(user_id), t, REQUEST_TTL)
        r4 == RedisExpire(r3, total_key, t, REQUEST_TTL)
    IN [redis |-> r4,
        allowed |-> ~(r2[total_key].val > MAX_CONCURRENT_REQUESTS + 1
                      \/ r1[user_key(user_id)].val
                           > MAX_CONCURRENT_REQUESTS_FOR_ONE_USER + 1)]

\* check_rate_limit comparing with >= instead of >
check_rate_limit_Ge(rd, user_id, t) ==
    LET r1 == RedisIncr(rd, user_key(user_id), t)
        r2 == RedisIncr(r1, total_key, t)
        r3 == RedisExpire(r2, user_key(user_id), t, REQUEST_TTL)
        r4 == RedisExpire(r3, total_key, t, REQUEST_TTL)
    IN [redis |-> r4,
        allowed |-> ~(r2[total_key].val >= MAX_CONCURRENT_REQUESTS
                      \/ r1[user_key(user_id)].val
                           >= MAX_CONCURRENT_REQUESTS_FOR_ONE_USER)]

\* check_rate_limit testing the user's counter only
check_rate_limit_UserOnly(rd, user_id, t) ==
    LET r1 == RedisIncr(rd, user_key(user_id), t)
        r2 == RedisIncr(r1, total_key, t)
        r3 == RedisExpire(r2, user_key(user_id), t, REQUEST_TTL)
        r4 == RedisExpire(r3, total_key, t, REQUEST_TTL)
    IN [redis |-> r4,
        allowed |-> ~(r1[user_key(user_id)].val
                           > MAX_CONCURRENT_REQUESTS_FOR_ONE_USER)]

\* check_rate_limit without the EXPIRE of total_requests
check_rate_limit_NoTotalTtl(rd, user_id, t) ==
    LET r1 == RedisIncr(rd, user_key(user_id), t)
        r2 == RedisIncr(r1, total_key, t)
        r3 == RedisExpire(r2, user_key(user_id), t, REQUEST_TTL)
    IN [redis |-> r3,
        allowed |-> ~(r2[total_key].val > MAX_CONCURRENT_REQUESTS
                      \/ r1[user_key(user_id)].val
                           > MAX_CONCURRENT_REQUESTS_FOR_ONE_USER)]

\* check_rate_limit(user_id): the pipeline runs as one MULTI/EXEC batch
check_rate_limit(rd, user_id, t) ==
    LET r1 == RedisIncr(rd, user_key(user_id), t)
        r2 == RedisIncr(r1, total_key, t)
        r3 == RedisExpire(r2, user_key(user_id), t, REQUEST_TTL)
        r4 == RedisExpire(r3, total_key, t, REQUEST_TTL)
        current_user_requests == r1[user_key(user_id)].val
        current_total_requests == r2[total_key].val
    IN [redis |-> r4,
        allowed |-> ~(current_total_requests > MAX_CONCURRENT_REQUESTS
                      \/ current_user_requests > MAX_CONCURRENT_REQUESTS_FOR_ONE_USER)]

\* ------------------------------------------------------------------ SQLite
Min(S) == CHOOSE x \in S : \A y \in S : x <= y
NoRow == [found |-> FALSE, full_url |-> None, short_url |-> None, created_at |-> 0]
AsRow(r) == [found |-> TRUE, full_url |-> r.full_url, short_url |-> r.short_url,
             created_at |-> r.created_at]

\* SELECT ... FROM url_map WHERE full_url = ? ; fetchone()
SelectByFullUrl(tbl, full_url) ==
    LET S == {i \in 1..Len(tbl) : tbl[i].full_url = full_url}
    IN IF S = {} THEN NoRow ELSE AsRow(tbl[Min(S)])
\* SELECT ... FROM url_map WHERE short_url = ? ; fetchone()
SelectByShortUrl(tbl, short_url) ==
    LET S == {i \in 1..Len(tbl) : tbl[i].short_url = short_url}
    IN IF S = {} THEN NoRow ELSE AsRow(tbl[Min(S)])
\* the UPDATE without its WHERE clause
SqlUpdate_NoWhere(tbl, short_url, created_at, full_url) ==
    [i \in 1..Len(tbl) |->
        [tbl[i] EXCEPT !.short_url = short_url, !.created_at = created_at]]

\* UPDATE url_map SET short_url = ?, created_at = ? WHERE full_url = ?
SqlUpdate(tbl, short_url, created_at, full_url) ==
    [i \in 1..Len(tbl) |->
        IF tbl[i].full_url = full_url
        THEN [tbl[i] EXCEPT !.short_url = short_url, !.created_at = created_at]
        ELSE tbl[i]]
\* INSERT INTO url_map (full_url, short_url, created_at) VALUES (?, ?, ?)
SqlInsert(tbl, full_url, short_url, created_at) ==
    Append(tbl, [id |-> Len(tbl) + 1, full_url |-> full_url,
                 short_url |-> short_url, created_at |-> created_at])

\* is_link_expired(created_at), evaluated at clock t
is_link_expired(created_at, t) == t > Strptime(created_at) + LinkTTLTicks

\* GetFullURL.get answering 410 when no row has the code
GetFullURL_get_NoRowGone(tbl, short_url, t) ==
    LET row == SelectByShortUrl(tbl, short_url)
    IN IF ~row.found \/ is_link_expired(row.created_at, t)
       THEN [status |-> 410, full_url |-> None]
       ELSE [status |-> 200, full_url |-> row.full_url]

\* GetFullURL.get(short_url): status and payload
GetFullURL_get(tbl, short_url, t) ==
    LET row == SelectByShortUrl(tbl, short_url)
    IN IF ~row.found THEN [status |-> 404, full_url |-> None]
       ELSE IF is_link_expired(row.created_at, t)
            THEN [status |-> 410, full_url |-> None]
            ELSE [status |-> 200, full_url |-> row.full_url]
\* RedirectURL.get(short_url): status and redirect target
RedirectURL_get(tbl, short_url, t) ==
    LET row == SelectByShortUrl(tbl, short_url)
    IN IF ~row.found THEN [status |-> 404, full_url |-> None]
       ELSE IF is_link_expired(row.created_at, t)
            THEN [status |-> 410, full_url |-> None]
            ELSE [status |-> 302, full_url |-> row.full_url]


\* ------------------------------------------------------------- bookkeeping
RECURSIVE Sum(_, _)
Sum(f, S) == IF S = {} THEN 0
             ELSE LET x == CHOOSE y \in S : TRUE IN f[x] + Sum(f, S \ {x})
Count(S) == Cardinality(S)

\* increments of a key not yet taken back by the release of their request
InFlightUser(u) ==
    parked[u] + leakU[u]
    + Count({q \in Slots : req[q].holdU /\ req[q].user_id = u})
InFlightTotal ==
    Sum(parked, Users) + leakT + Count({q \in Slots : req[q].holdT})
InFlight(k) == IF k = total_key THEN InFlightTotal
               ELSE InFlightUser(CHOOSE u \in Users : user_key(u) = k)
\* requests that were admitted and have not finished their release
AdmittedUser(u) ==
    parked[u] + Count({q \in Slots : req[q].pc # "idle" /\ req[q].is_allowed
                                      /\ req[q].user_id = u})
AdmittedTotal ==
    Sum(parked, Users)
    + Count({q \in Slots : req[q].pc # "idle" /\ req[q].is_allowed})

NoObs == [seen |-> FALSE, inU |-> 0, inT |-> 0, admU |-> 0, admT |-> 0,
          after |-> None]

\* locals of a handler thread that is not running a request
IdleReq == [pc |-> "idle", user_id |-> None, full_url |-> None,
            counters_increased |-> FALSE, is_allowed |-> FALSE,
            row |-> NoRow, short_url |-> None, created_at |-> 0,
            status |-> 0,
            tried |-> FALSE, releases |-> 0, holdU |-> FALSE, holdT |-> FALSE,
            rowExpired |-> FALSE, aged |-> FALSE,
            again |-> FALSE, prevCode |-> None, obs |-> NoObs]

\* no POST call has returned yet
NoneDone == [full_url |-> None, status |-> 0, short_url |-> None,
             tried |-> FALSE, releases |-> 0, rowExpired |-> FALSE,
             again |-> FALSE, prevCode |-> None, fresh |-> FALSE]

\* the response (status, short_url) leaves the handler of thread p and its
\* locals go away
Return(p, r) ==
    /\ req' = [req EXCEPT ![p] = IdleReq]
    /\ done' = [full_url |-> r.full_url, status |-> r.status,
                short_url |-> IF r.status \in {200, 201} THEN r.short_url
                              ELSE None,
                tried |-> r.tried, releases |-> r.releases,
                rowExpired |-> r.rowExpired,
                again |-> r.again, prevCode |-> r.prevCode,
                fresh |-> ~r.aged]

\* counters_increased set only for an admitted request
CountersIncreased_IfAllowed(is_allowed) == is_allowed

\* line 105: counters_increased = True
CountersIncreased(is_allowed) == TRUE

\* finally: the release runs only if counters_increased
Finally(p, r) ==
    IF r.counters_increased
    THEN /\ req' = [req EXCEPT ![p] =
                [r EXCEPT !.pc = IF r.user_id # None THEN "rel_get_user"
                                 ELSE "rel_get_total",
                          !.releases = @ + 1]]
         /\ done' = done
    ELSE Return(p, r)

\* a request of the starting burst: check_rate_limit admitted it
Admitted(u, url) ==
    [IdleReq EXCEPT !.pc = "select", !.user_id = u, !.full_url = url,
                    !.counters_increased = TRUE, !.is_allowed = TRUE,
                    !.tried = TRUE, !.holdU = TRUE, !.holdT = TRUE]

\* the starting bursts: none, one user's, or Test2.py's two users
NoBurst == [u \in Users |-> 0]
Bursts ==
    { NoBurst,
      [u \in Users |-> IF u = "1" THEN Burst ELSE 0],
      [u \in Users |-> IF u = "1" THEN Burst - Burst \div 2
                       ELSE IF u = "2" THEN Burst \div 2 ELSE 0] }

\* the counters after the burst b was admitted at clock 0
RedisAfter(b) ==
    [k \in Keys |->
        LET n == IF k = total_key THEN Sum(b, Users)
                 ELSE b[CHOOSE u \in Users : user_key(u) = k]
        IN IF n = 0 THEN Missing
           ELSE [set |-> TRUE, val |-> n, ttl |-> TRUE, exp |-> RequestTTLTicks]]

InitWith(bursts) ==
    /\ now = 0
    /\ url_map = << >>
    /\ parked \in bursts
    /\ redis = RedisAfter(parked)
    /\ req = [p \in Slots |-> IdleReq]
    /\ resp = [op |-> "none", short_url |-> None, status |-> 0, full_url |-> None]
    /\ calls = 0
    /\ faults = 0
    /\ done = NoneDone
    /\ leakU = [u \in Users |-> 0]
    /\ leakT = 0
    /\ expiredInFlight = FALSE

\* ------------------------------------------------------ POST /generate
\* the locals of a new call; again: it repeats the URL of the call that
\* has just returned 201
NewReq(old, user_id, full_url) ==
    LET again == old.fresh /\ old.status = 201 /\ old.full_url = full_url
    IN [IdleReq EXCEPT !.user_id = user_id, !.full_url = full_url,
                       !.again = again,
                       !.prevCode = IF again THEN old.short_url ELSE None]

\* the threads are interchangeable: a request goes to the first idle one
FirstIdle(p) == req[p].pc = "idle" /\ \A q \in 1..(p - 1) : req[q].pc # "idle"

\* lines 98-102 with the test of full_url left out
MissingField_UserOnly(user_id, full_url) == user_id = None

\* lines 98-102: if not user_id ... if not full_url ...
MissingField(user_id, full_url) == user_id = None \/ full_url = None

\* lines 92-108: read the body, validate, check_rate_limit
Post_Begin(p, user_id, full_url) ==
    /\ FirstIdle(p)
    /\ calls < MaxCalls
    /\ calls' = calls + 1
    /\ LET r0 == NewReq(done, user_id, full_url)
       IN IF MissingField(user_id, full_url)
          THEN /\ Finally(p, [r0 EXCEPT !.status = 400])
               /\ redis' = redis
          ELSE LET c == check_rate_limit(redis, user_id, now)
                   r1 == [r0 EXCEPT
                            !.is_allowed = c.allowed,
                            !.counters_increased = CountersIncreased(c.allowed),
                            !.tried = TRUE, !.holdU = TRUE, !.holdT = TRUE,
                            !.obs = [seen |-> TRUE,
                                     inU |-> InFlightUser(user_id),
                                     inT |-> InFlightTotal,
                                     admU |-> AdmittedUser(user_id),
                                     admT |-> AdmittedTotal,
                                     after |-> done.status]]
               IN /\ redis' = c.redis
                  /\ IF ~c.allowed
                     THEN Finally(p, [r1 EXCEPT !.status = 429])
                     ELSE /\ req' = [req EXCEPT ![p] =
                                        [r1 EXCEPT !.pc = "select"]]
                          /\ done' = done
    /\ UNCHANGED <<now, url_map, parked, resp, faults, leakU, leakT,
                   expiredInFlight>>

\* a request of the starting burst reaches its SELECT in a followed thread
Post_Resume(p, user_id) ==
    /\ FirstIdle(p)
    /\ calls < MaxCalls
    /\ parked[user_id] > 0
    /\ calls' = calls + 1
    /\ parked' = [parked EXCEPT ![user_id] = @ - 1]
    /\ req' = [req EXCEPT ![p] = Admitted(user_id, TestUrl)]
    /\ UNCHANGED <<now, url_map, redis, resp, faults, done, leakU, leakT,
                   expiredInFlight>>

\* the SELECT step refreshing created_at of a row it finds unexpired
Post_Select_Touch(p) ==
    /\ req[p].pc = "select"
    /\ LET r == req[p]
           row == SelectByFullUrl(url_map, r.full_url)
           r1 == [r EXCEPT !.row = row, !.obs = NoObs,
                    !.rowExpired = (row.found
                                    /\ is_link_expired(row.created_at, now))]
       IN IF row.found /\ ~is_link_expired(row.created_at, now)
          THEN /\ Finally(p, [r1 EXCEPT !.short_url = row.short_url,
                                        !.status = 200])
               /\ url_map' = SqlUpdate(url_map, row.short_url, Strftime(now),
                                       r.full_url)
          ELSE /\ req' = [req EXCEPT ![p] =
                    [r1 EXCEPT !.pc = "write",
                               !.short_url = generate_short_url(r.full_url),
                               !.created_at = Strftime(now)]]
               /\ done' = done
               /\ url_map' = url_map
    /\ UNCHANGED <<now, redis, parked, resp, calls, faults,
                   leakU, leakT, expiredInFlight>>

\* lines 110-121: SELECT by full_url, expiry test, new code and timestamp
Post_Select(p) ==
    /\ req[p].pc = "select"
    /\ LET r == req[p]
           row == SelectByFullUrl(url_map, r.full_url)
           r1 == [r EXCEPT !.row = row, !.obs = NoObs,
                    !.rowExpired = (row.found
                                    /\ is_link_expired(row.created_at, now))]
       IN IF row.found /\ ~is_link_expired(row.created_at, now)
          THEN Finally(p, [r1 EXCEPT !.short_url = row.short_url,
                                     !.status = 200])
          ELSE /\ req' = [req EXCEPT ![p] =
                    [r1 EXCEPT !.pc = "write",
                               !.short_url = generate_short_url(r.full_url),
                               !.created_at = Strftime(now)]]
               /\ done' = done
    /\ UNCHANGED <<now, url_map, redis, parked, resp, calls, faults,
                   leakU, leakT, expiredInFlight>>

\* the write without its commit: 201 is returned, the table is as before
Post_Write_NoCommit(p) ==
    /\ req[p].pc = "write"
    /\ Finally(p, [req[p] EXCEPT !.status = 201])
    /\ UNCHANGED <<now, url_map, redis, parked, resp, calls, faults,
                   leakU, leakT, expiredInFlight>>

\* lines 123-131: UPDATE or INSERT, commit
Post_Write(p) ==
    /\ req[p].pc = "write"
    /\ LET r == req[p]
       IN /\ url_map' = IF r.row.found
                        THEN SqlUpdate(url_map, r.short_url, r.created_at, r.full_url)
                        ELSE SqlInsert(url_map, r.full_url, r.short_url, r.created_at)
          /\ Finally(p, [r EXCEPT !.status = 201])
    /\ UNCHANGED <<now, redis, parked, resp, calls, faults, leakU, leakT,
                   expiredInFlight>>

\* lines 133-135: sqlite3 raises at the SELECT or at the write; nothing is
\* committed
Post_DbFault(p) ==
    /\ req[p].pc \in {"select", "write"}
    /\ faults < MaxFaults
    /\ faults' = faults + 1
    /\ Finally(p, [req[p] EXCEPT !.status = 500, !.obs = NoObs])
    /\ UNCHANGED <<now, url_map, redis, parked, resp, calls, leakU, leakT,
                   expiredInFlight>>

\* lines 141, 145: the value read allows a decrement
ShouldDecr(g) == ~g.nil /\ g.val > 0

\* lines 139-141: GET user_requests:<user_id>
Rel_GetUser(p) ==
    /\ req[p].pc = "rel_get_user"
    /\ LET r == req[p]
           current_user_requests == RedisGet(redis, user_key(r.user_id), now)
       IN req' = [req EXCEPT ![p] =
            IF ShouldDecr(current_user_requests)
            THEN [r EXCEPT !.pc = "rel_decr_user", !.obs = NoObs]
            ELSE [r EXCEPT !.pc = "rel_get_total", !.holdU = FALSE,
                           !.obs = NoObs]]
    /\ UNCHANGED <<now, url_map, redis, parked, resp, calls, faults, done,
                   leakU, leakT, expiredInFlight>>

\* line 142: DECR user_requests:<user_id>
Rel_DecrUser(p) ==
    /\ req[p].pc = "rel_decr_user"
    /\ redis' = RedisDecr(redis, user_key(req[p].user_id), now)
    /\ req' = [req EXCEPT ![p] = [req[p] EXCEPT !.pc = "rel_get_total",
                                                !.holdU = FALSE]]
    /\ UNCHANGED <<now, url_map, parked, resp, calls, faults, done, leakU, leakT,
                   expiredInFlight>>

\* lines 144-145: GET total_requests
Rel_GetTotal(p) ==
    /\ req[p].pc = "rel_get_total"
    /\ LET r == req[p]
           current_total_requests == RedisGet(redis, total_key, now)
       IN IF ShouldDecr(current_total_requests)
          THEN /\ req' = [req EXCEPT ![p] = [r EXCEPT !.pc = "rel_decr_total"]]
               /\ done' = done
          ELSE Return(p, [r EXCEPT !.holdT = FALSE])
    /\ UNCHANGED <<now, url_map, redis, parked, resp, calls, faults,
                   leakU, leakT, expiredInFlight>>

\* line 146: DECR total_requests, then the response leaves
Rel_DecrTotal(p) ==
    /\ req[p].pc = "rel_decr_total"
    /\ redis' = RedisDecr(redis, total_key, now)
    /\ Return(p, [req[p] EXCEPT !.holdT = FALSE])
    /\ UNCHANGED <<now, url_map, parked, resp, calls, faults, leakU, leakT,
                   expiredInFlight>>

\* lines 137-146: a Redis command of the finally block raises; no except
\* clause covers it, so the exception leaves post() (status -1) and the
\* decrements not yet done are lost
Rel_Fault(p) ==
    /\ req[p].pc \in {"rel_get_user", "rel_decr_user",
                      "rel_get_total", "rel_decr_total"}
    /\ faults < MaxFaults
    /\ faults' = faults + 1
    /\ LET r == req[p]
       IN /\ leakU' = IF r.holdU THEN [leakU EXCEPT ![r.user_id] = @ + 1]
                      ELSE leakU
          /\ leakT' = IF r.holdT THEN leakT + 1 ELSE leakT
          /\ Return(p, [r EXCEPT !.status = -1])
    /\ UNCHANGED <<now, url_map, redis, parked, resp, calls, expiredInFlight>>

\* check_rate_limit swallowing the exception of the pipeline and admitting
Post_BeginFault_FailOpen(p, user_id, full_url, applied) ==
    /\ FirstIdle(p)
    /\ calls < MaxCalls
    /\ faults < MaxFaults
    /\ calls' = calls + 1
    /\ faults' = faults + 1
    /\ redis' = IF applied THEN check_rate_limit(redis, user_id, now).redis
                ELSE redis
    /\ leakU' = leakU
    /\ leakT' = leakT
    /\ req' = [req EXCEPT ![p] =
                [Admitted(user_id, full_url) EXCEPT !.holdU = applied,
                                                    !.holdT = applied]]
    /\ done' = done
    /\ UNCHANGED <<now, url_map, parked, resp, expiredInFlight>>

\* lines 104, 133-138: pipeline.execute() raises inside check_rate_limit,
\* before the batch reached Redis (applied = FALSE) or after Redis ran it
\* and the reply was lost; counters_increased is still False
Post_BeginFault(p, user_id, full_url, applied) ==
    /\ FirstIdle(p)
    /\ calls < MaxCalls
    /\ faults < MaxFaults
    /\ calls' = calls + 1
    /\ faults' = faults + 1
    /\ redis' = IF applied THEN check_rate_limit(redis, user_id, now).redis
                ELSE redis
    /\ leakU' = IF applied THEN [leakU EXCEPT ![user_id] = @ + 1] ELSE leakU
    /\ leakT' = IF applied THEN leakT + 1 ELSE leakT
    /\ Finally(p, [NewReq(done, user_id, full_url) EXCEPT !.status = 500])
    /\ UNCHANGED <<now, url_map, parked, resp, expiredInFlight>>

\* ------------------------------------------------------------ GET handlers
\* GET /get/<short_url> deleting the rows of a code it finds expired
GetFullURL_Purge(short_url) ==
    /\ LET out == GetFullURL_get(url_map, short_url, now)
       IN /\ resp' = [op |-> "get", short_url |-> short_url,
                      status |-> out.status, full_url |-> out.full_url]
          /\ url_map' = IF out.status = 410
                        THEN SelectSeq(url_map,
                                       LAMBDA r : r.short_url # short_url)
                        ELSE url_map
    /\ UNCHANGED <<now, redis, req, parked, calls, faults, done,
                   leakU, leakT, expiredInFlight>>

\* GET /get/<short_url>
GetFullURL(short_url) ==
    /\ LET out == GetFullURL_get(url_map, short_url, now)
       IN resp' = [op |-> "get", short_url |-> short_url,
                   status |-> out.status, full_url |-> out.full_url]
    /\ UNCHANGED <<now, url_map, redis, req, parked, calls, faults, done,
                   leakU, leakT, expiredInFlight>>

\* GET /<short_url>
RedirectURL(short_url) ==
    /\ LET out == RedirectURL_get(url_map, short_url, now)
       IN resp' = [op |-> "redirect", short_url |-> short_url,
                   status |-> out.status, full_url |-> out.full_url]
    /\ UNCHANGED <<now, url_map, redis, req, parked, calls, faults, done,
                   leakU, leakT, expiredInFlight>>

\* lines 171-173, 198-200: sqlite3 raises in a GET handler
Get_DbFault(op, short_url) ==
    /\ faults < MaxFaults
    /\ faults' = faults + 1
    /\ resp' = [op |-> op, short_url |-> short_url, status |-> 500,
                full_url |-> None]
    /\ UNCHANGED <<now, url_map, redis, req, parked, calls, done, leakU, leakT,
                   expiredInFlight>>

\* ------------------------------------------------------------------ clock
\* time passes by d ticks up to the horizon; Redis drops the keys whose TTL
\* has run out.  Between the timestamp of line 121 and the commit of line
\* 129 only single ticks pass.  Two calls with a link lifetime between them
\* do not follow each other immediately.
Advance(d, horizon) ==
    /\ now + d <= horizon
    /\ d = 1 => (now % LinkTTLTicks) < MaxFineTicks
    /\ d > 1 => \A p \in Slots : req[p].pc # "write"
    /\ now' = now + d
    /\ redis' = RedisPurge(redis, now + d)
    /\ expiredInFlight' =
         (expiredInFlight
          \/ \E k \in Keys : /\ Live(redis, k, now)
                             /\ ~Live(redis, k, now + d)
                             /\ InFlight(k) > 0)
    /\ req' = IF d < LinkTTLTicks THEN req
              ELSE [p \in Slots |->
                      IF req[p].pc = "idle" THEN req[p]
                      ELSE [req[p] EXCEPT !.again = FALSE, !.prevCode = None,
                                          !.aged = TRUE]]
    /\ done' = IF d < LinkTTLTicks THEN done ELSE [done EXCEPT !.fresh = FALSE]
    /\ UNCHANGED <<url_map, parked, resp, calls, faults, leakU, leakT>>

\* ------------------------------------------------------- specifications
\* the steps of POST /generate that follow its first
PostSteps ==
    \/ \E p \in Slots : Post_Select(p)
    \/ \E p \in Slots : Post_Write(p)
    \/ \E p \in Slots : Post_DbFault(p)
    \/ \E p \in Slots : Rel_GetUser(p)
    \/ \E p \in Slots : Rel_DecrUser(p)
    \/ \E p \in Slots : Rel_GetTotal(p)
    \/ \E p \in Slots : Rel_DecrTotal(p)

\* admission: every user, Test2.py's URL, its burst of requests, the clock
\* moving by counter lifetimes
InitAdmit == InitWith(Bursts)
NextAdmit ==
    \/ \E p \in Slots, u \in Users : Post_Begin(p, u, TestUrl)
    \/ \E p \in Slots, u \in Users : Post_Resume(p, u)
    \/ PostSteps
    \/ Advance(RequestTTLTicks, AdmitHorizon)
SpecAdmit == InitAdmit /\ [][NextAdmit]_vars

\* admission with Redis faults: one thread, one user
NextFault ==
    \/ Post_Begin(1, "1", TestUrl)
    \/ Post_Resume(1, "1")
    \/ Post_Select(1) \/ Post_Write(1) \/ Post_DbFault(1)
    \/ Rel_GetUser(1) \/ Rel_DecrUser(1) \/ Rel_GetTotal(1) \/ Rel_DecrTotal(1)
    \/ Rel_Fault(1)
    \/ \E applied \in BOOLEAN : Post_BeginFault(1, "1", TestUrl, applied)
    \/ Advance(RequestTTLTicks, AdmitHorizon)
SpecFault == InitAdmit /\ [][NextFault]_vars

\* registry under concurrency: one user, every URL, the clock moving by
\* ticks and by link lifetimes
InitLink == InitWith({NoBurst})
NextLink ==
    \/ \E p \in Slots, url \in Urls : Post_Begin(p, "1", url)
    \/ PostSteps
    \/ \E d \in {1, LinkTTLTicks} : Advance(d, LinkHorizon)
SpecLink == InitLink /\ [][NextLink]_vars

\* resolution: one thread posting, with or without its fields, the GET
\* handlers, the clock moving by ticks and by link lifetimes
NextRead ==
    \/ \E url \in Urls \cup {None} : Post_Begin(1, "1", url)
    \/ Post_Begin(1, None, TestUrl)
    \/ Post_Select(1) \/ Post_Write(1) \/ Post_DbFault(1)
    \/ Rel_GetUser(1) \/ Rel_DecrUser(1) \/ Rel_GetTotal(1) \/ Rel_DecrTotal(1)
    \/ \E c \in Codes : GetFullURL(c)
    \/ \E c \in Codes : RedirectURL(c)
    \/ \E op \in {"get", "redirect"}, c \in Codes : Get_DbFault(op, c)
    \/ \E d \in {1, LinkTTLTicks} : Advance(d, LinkHorizon)
SpecRead == InitLink /\ [][NextRead]_vars

\* ------------------------------------------------------------ properties
RowsOf(full_url) == {i \in 1..Len(url_map) : url_map[i].full_url = full_url}

\* C1: whatever the interleaving of concurrent POST /generate calls, the
\* table never holds two rows for one full_url, and the full_url of a call
\* that returned a short_url has exactly one row
C1_OneRecordPerUrl ==
    /\ \A u \in Urls : Count(RowsOf(u)) <= 1
    /\ done.status \in {200, 201} => Count(RowsOf(done.full_url)) = 1

\* C2: a call whose check_rate_limit ran enters the release block of the
\* finally clause exactly once before it returns (201, 200, 429 or 500), and
\* never twice while it runs
C2_ReleaseOnce ==
    /\ \A p \in Slots :
          req[p].tried =>
             /\ req[p].releases <= 1
             /\ req[p].pc \in {"rel_get_user", "rel_decr_user", "rel_get_total",
                               "rel_decr_total"} <=> req[p].releases = 1
    /\ done.tried => done.releases = 1 /\ done.status \in {200, 201, 429, 500}
C2_Witness == done.tried /\ done.status = 500 /\ done.releases = 1
C2_Witness429 == done.tried /\ done.status = 429 /\ done.releases = 1

\* C3: no counter is ever below zero
C3_NonNegative == \A k \in Keys : redis[k].set => redis[k].val >= 0

\* C4: once every try_admit on a key has been followed by its release, the
\* key is absent or 0
C4_Conserved ==
    \A k \in Keys : InFlight(k) = 0 => (~Live(redis, k, now) \/ redis[k].val = 0)

\* C5 as stated: at most MAX_CONCURRENT_REQUESTS_FOR_ONE_USER admitted and
\* unreleased requests per user and MAX_CONCURRENT_REQUESTS over all users
C5_AsStated ==
    /\ \A u \in Users : AdmittedUser(u) <= MAX_CONCURRENT_REQUESTS_FOR_ONE_USER
    /\ AdmittedTotal <= MAX_CONCURRENT_REQUESTS
\* C5: as long as no counter expired under a request that had incremented
\* it and not yet released, the admitted and unreleased requests are at most
\* 100 per user and 100 over all users
C5_Bound == ~expiredInFlight => C5_AsStated
C5_Witness ==
    /\ ~expiredInFlight
    /\ AdmittedTotal = MAX_CONCURRENT_REQUESTS
    /\ \E p \in Slots : req[p].tried /\ req[p].pc # "idle" /\ ~req[p].is_allowed

\* C6 as stated (within one counter lifetime): a try_admit is Admitted
\* exactly when fewer than 100 Admitted calls are unreleased, so that one
\* release after the 101st call lets the next call in
C6_AsStated ==
    ~expiredInFlight =>
      \A p \in Slots :
         req[p].obs.seen =>
            (req[p].is_allowed <=>
               /\ req[p].obs.admU < MAX_CONCURRENT_REQUESTS_FOR_ONE_USER
               /\ req[p].obs.admT < MAX_CONCURRENT_REQUESTS)
\* C6: within one counter lifetime a try_admit is Admitted exactly when
\* fewer than 100 try_admit calls, Admitted or Rejected, are unreleased for
\* the user and over all users: the 101st is Rejected, and the next call is
\* Admitted once the rejected call and one more call have released
C6_Threshold ==
    ~expiredInFlight =>
      \A p \in Slots :
         req[p].obs.seen =>
            (req[p].is_allowed <=>
               /\ req[p].obs.inU < MAX_CONCURRENT_REQUESTS_FOR_ONE_USER
               /\ req[p].obs.inT < MAX_CONCURRENT_REQUESTS)
\* a call that begins after a rejected call has returned, with 99 calls
\* still unreleased, is admitted as the 100th
C6_Witness ==
    /\ ~expiredInFlight
    /\ \E p \in Slots :
          /\ req[p].obs.seen /\ req[p].is_allowed
          /\ req[p].obs.after = 429
          /\ req[p].obs.inU = MAX_CONCURRENT_REQUESTS_FOR_ONE_USER - 1
          /\ req[p].obs.inT = MAX_CONCURRENT_REQUESTS - 1
          /\ \A q \in Slots \ {p} : req[q].pc = "idle"
\* the 101st call is rejected
C6_Witness101 ==
    /\ ~expiredInFlight
    /\ \E p \in Slots :
          /\ req[p].obs.seen /\ ~req[p].is_allowed
          /\ req[p].obs.inU = MAX_CONCURRENT_REQUESTS_FOR_ONE_USER
          /\ req[p].obs.admU = MAX_CONCURRENT_REQUESTS_FOR_ONE_USER

C8_Idempotent ==
    (done.again /\ done.status \in {200, 201})
       => (done.status = 200 /\ done.short_url = done.prevCode)
C8_Witness ==
    /\ done.again /\ done.status = 200
    /\ done.short_url = generate_short_url(done.full_url)

\* C9: the write of a call that found the row of its full_url expired keeps
\* the code, stores the timestamp taken by the call, and right after it
\* GET /get/<code> does not answer 410
C9_RefreshOnWrite ==
    [][\A p \in Slots :
         (req[p].pc = "write" /\ req[p].rowExpired /\ url_map' # url_map
          /\ req'[p].pc # "write")
           => /\ req[p].short_url = req[p].row.short_url
              /\ SelectByFullUrl(url_map', req[p].full_url).created_at
                    = req[p].created_at
              /\ GetFullURL_get(url_map', req[p].short_url, now').status # 410
      ]_vars

\* C10: a row older than the link lifetime stays in the table, and both GET
\* handlers answer 410 for its code
C10_ExpiredButPresent ==
    \A i \in 1..Len(url_map) :
       is_link_expired(url_map[i].created_at, now) =>
          /\ GetFullURL_get(url_map, url_map[i].short_url, now).status = 410
          /\ RedirectURL_get(url_map, url_map[i].short_url, now).status = 410

\* C11: a fault of either store at any step of a handler is caught inside
\* the handler and answered with 500; no exception leaves the handler
\* (status -1 stands for an exception that left post())
C11_NoEscape == done.status \in {0, 200, 201, 400, 429, 500}

\* C12: GET /get/<code> and GET /<code> answer 404 for a code that no row of
\* the table holds (when sqlite3 does not raise): for every code now, and for
\* the last answer given
C12_NotFound ==
    /\ \A c \in Codes :
          SelectByShortUrl(url_map, c) = NoRow
             => /\ GetFullURL_get(url_map, c, now).status = 404
                /\ RedirectURL_get(url_map, c, now).status = 404
    /\ (resp.op # "none" /\ resp.status # 500
        /\ \A i \in 1..Len(url_map) : url_map[i].short_url # resp.short_url)
          => resp.status = 404
\* a code never issued, and an issued code of a URL that is not in the
\* table, asked for while the table holds other rows
C12_Witness ==
    /\ Len(url_map) > 0
    /\ resp.status = 404
    /\ resp.short_url = generate_short_url(OtherUrl)
    /\ GetFullURL_get(url_map, "zzzzzz", now).status = 404

\* C13: one step of check_rate_limit applies the whole batch: both counters
\* are one higher (a missing or expired key counting as 0), both TTLs are
\* REQUEST_TTL from now, and no other key changes; no step sees less
C13_AtomicBatch ==
    [][\A p \in Slots :
         (req[p].pc = "idle" /\ req'[p].obs.seen) =>
            LET uk == user_key(req'[p].user_id)
                Was(k) == IF Live(redis, k, now) THEN redis[k].val ELSE 0
            IN /\ \A k \in {uk, total_key} :
                     /\ redis'[k].set /\ redis'[k].val = Was(k) + 1
                     /\ redis'[k].ttl
                     /\ redis'[k].exp = now + RequestTTLTicks
               /\ \A k \in Keys \ {uk, total_key} : redis'[k] = redis[k]
      ]_vars
\* two calls have just run check_rate_limit one after the other, after the
\* counters of the starting burst had expired
C13_Witness ==
    /\ now > 0
    /\ \A p \in Slots : req[p].obs.seen
    /\ redis[total_key].val = NumSlots
    /\ redis[total_key].exp = now + RequestTTLTicks

\* C14: every row's short_url is generate_short_url of its full_url, and a
\* call that returned a short_url (200 or 201) returned generate_short_url
\* of its full_url, whatever the interleaving, expiry or overwrite before it
C14_CodeOfUrl ==
    /\ \A i \in 1..Len(url_map) :
          url_map[i].short_url = generate_short_url(url_map[i].full_url)
    /\ done.status \in {200, 201}
          => done.short_url = generate_short_url(done.full_url)
\* a call overwrote the expired row of its URL while the table holds rows
\* of other URLs
C14_Witness ==
    /\ done.status = 201 /\ done.rowExpired
    /\ Len(url_map) >= 2
    /\ done.short_url = generate_short_url(done.full_url)

\* C15: a key that is set carries a TTL that ends at most REQUEST_TTL from
\* now, whatever value a release left in it, so that it is gone 60 s after
\* the last check_rate_limit on it
C15_SelfHealing ==
    \A k \in Keys :
       redis[k].set => (redis[k].ttl /\ redis[k].exp <= now + RequestTTLTicks)

\* C16: a call whose pipeline raised inside check_rate_limit returns 500 in
\* that step: it never reaches the SELECT, writes nothing, and is not
\* answered 429
C16_AdmitFault ==
    [][\A p \in Slots :
         (FirstIdle(p) /\ calls' = calls + 1 /\ faults' = faults + 1)
            => /\ req'[p].pc = "idle"
               /\ done'.status = 500 /\ ~done'.tried /\ done'.releases = 0
               /\ url_map' = url_map
      ]_vars
\* the call returned 500 without release although Redis had run the batch
C16_Witness ==
    /\ done.status = 500 /\ ~done.tried /\ done.releases = 0
    /\ faults = 1 /\ leakT = 1
    /\ \A p \in Slots : req[p].pc = "idle"

\* C17: a call with user_id or full_url missing returns 400 in its first
\* step, leaving the counters and the table as they were and running no
\* release; a call that goes on past that step has both fields
C17_InvalidRequest ==
    [][\A p \in Slots :
         (FirstIdle(p) /\ calls' = calls + 1 /\ faults' = faults) =>
            IF req'[p].pc = "idle"
            THEN /\ done'.status = 400
                 /\ ~done'.tried /\ done'.releases = 0
                 /\ redis' = redis /\ url_map' = url_map
            ELSE req'[p].user_id # None /\ req'[p].full_url # None
      ]_vars
\* the call without full_url returned 400 while counters and table were in
\* use
C17_Witness ==
    /\ done.status = 400 /\ done.full_url = None
    /\ ~done.tried /\ done.releases = 0
    /\ Len(url_map) > 0
    /\ Live(redis, total_key, now)

\* C18: a step of a GET handler, whatever it answers (200, 302, 404, 410 or
\* 500), changes no counter and no row; a row answered 410 stays as it is
C18_ReadOnly ==
    [][(req' = req /\ calls' = calls /\ now' = now)
          => (redis' = redis /\ url_map' = url_map)]_vars
\* the last GET answered 410 and the expired row with that code is still
\* in the table, while a counter is live
C18_Witness ==
    /\ resp.status = 410
    /\ \E i \in 1..Len(url_map) :
          /\ url_map[i].short_url = resp.short_url
          /\ is_link_expired(url_map[i].created_at, now)
    /\ \E k \in Keys : Live(redis, k, now)

\* C19: the SELECT step of a call that finds an unexpired row of its
\* full_url and answers 200 writes nothing: created_at stays what the last
\* 201 call stored
C19_FetchWritesNothing ==
    [][\A p \in Slots :
         (req[p].pc = "select" /\ req'[p].status = 200) => url_map' = url_map
      ]_vars
\* a call answered 200 from a row stored a whole link lifetime earlier, and
\* the row still carries the old created_at
C19_Witness ==
    /\ done.status = 200
    /\ now >= LinkTTLTicks
    /\ SelectByFullUrl(url_map, done.full_url).created_at = 0

\* C20: for every row not yet expired, GET /get/<its code> answers 200 with
\* its full_url and GET /<its code> redirects to its full_url, whatever
\* other rows the table holds
C20_RoundTrip ==
    \A i \in 1..Len(url_map) :
       ~is_link_expired(url_map[i].created_at, now) =>
          /\ GetFullURL_get(url_map, url_map[i].short_url, now)
                = [status |-> 200, full_url |-> url_map[i].full_url]
          /\ RedirectURL_get(url_map, url_map[i].short_url, now)
                = [status |-> 302, full_url |-> url_map[i].full_url]

====
